---- MODULE Spec2Model ----
(***************************************************************************)
(* A model of dulwich's MySQL backend: the pooled-connection decorators of *)
(* mysqlconnection.py (get_connection, dbcursor, replenishing_cursor,      *)
(* retry_operation) and the object store and refs container built on them  *)
(* in mysqlrepo.py.                                                        *)
(*                                                                         *)
(* Every decorated method is a "scoped operation".  A worker that calls    *)
(* one pushes a frame; the frame takes a connection and a cursor (Enter),  *)
(* runs the method body one database statement at a time, and leaves       *)
(* through dbcursor's except/finally block (dbcursor_exit).  Statements of *)
(* one connection are collected in the frame's transaction `tx` and reach  *)
(* the committed tables `objs` / `refs` when connection.commit() runs;     *)
(* other connections read the committed tables only (READ COMMITTED).      *)
(***************************************************************************)
EXTENDS Integers, Sequences, FiniteSets, TLC

\* ------------------------------------------------------------- bounds
\* Database errors injected in one behaviour.
MaxFaults == 1
\* Elements of the iterable given to add_objects or delete_objects.
MaxBatch == 2
\* The largest retries argument given to retry_operation.
MaxRetries == 3
MaxLen == 2
MaxOthers == 16

\* ---------------------------------------------------------- constants
POOL_SIZE == 8
\* retry_operation(retries=3, ...)
DEFAULT_RETRIES == 3

Workers == {"w1", "w2"}
Repos == {"A", "B"}
RefNames == {"HEAD", "refs/heads/master"}
\* 40-character hex object ids.
Shas == {"s1", "s2"}
None == "None"

\* SYMREF + other: the contents of a symbolic ref.
Symref(other) ==
    CASE other = "HEAD" -> "ref: HEAD"
      [] other = "refs/heads/master" -> "ref: refs/heads/master"

IsSymref(v) == \E n \in RefNames : v = Symref(n)

SymrefTarget(v) == CHOOSE n \in RefNames : v = Symref(n)

\* Connections held by workers that are not modelled, in the initial state.
OtherHolds == {0, POOL_SIZE - 1, POOL_SIZE}

VARIABLES
    objs,      \* committed rows of table objs:  repo -> oid -> <<type, data>> or <<>>
    refs,      \* committed rows of table refs:  repo -> ref -> value or None
    pool,      \* connection_pool: [created, idle]; idle = size of _cnx_queue
    others,    \* connections checked out by workers that are not modelled
    leaked,    \* connections the modelled workers took and never closed
    wk,        \* per worker: the stack of frames and the last finished call
    nfaults    \* database errors injected

vars == <<objs, refs, pool, others, leaked, wk, nfaults>>

\* ------------------------------------------------------------- tables
NoRow == <<>>

\* One statement of a transaction, applied to the refs table.
ApplyRefStmt(t, s) ==
    CASE s.stmt = "REF_ADD" -> [t EXCEPT ![s.repo][s.key] = s.val]
      [] s.stmt = "REF_DEL" -> [t EXCEPT ![s.repo][s.key] = None]
      [] s.stmt = "REF_DEL_REPO" ->
            [t EXCEPT ![s.repo] = [n \in RefNames |-> None]]
      [] OTHER -> t

\* An insert that replaces the row that is there.
INSERT_REPLACE(t, s) == [t EXCEPT ![s.repo][s.key] = s.val]

\* INSERT IGNORE keeps the row that is there (primary key (oid, repo)).
INSERT_IGNORE(t, s) ==
    IF t[s.repo][s.key] = NoRow THEN [t EXCEPT ![s.repo][s.key] = s.val] ELSE t

ApplyObjStmt(t, s) ==
    CASE s.stmt = "OBJ_ADD" -> INSERT_IGNORE(t, s)
      [] s.stmt = "OBJ_DEL" -> [t EXCEPT ![s.repo][s.key] = NoRow]
      [] s.stmt = "OBJ_DEL_REPO" ->
            [t EXCEPT ![s.repo] = [o \in DOMAIN t[s.repo] |-> NoRow]]
      [] OTHER -> t

RECURSIVE ApplyRefs(_, _)
ApplyRefs(t, tx) ==
    IF tx = <<>> THEN t ELSE ApplyRefs(ApplyRefStmt(t, Head(tx)), Tail(tx))

RECURSIVE ApplyObjs(_, _)
ApplyObjs(t, tx) ==
    IF tx = <<>> THEN t ELSE ApplyObjs(ApplyObjStmt(t, Head(tx)), Tail(tx))

\* The sequences of at most n elements of E.
SeqsUpTo(E, n) == UNION {[1..k -> E] : k \in 0..n}

\* ------------------------------------------------------------- frames
NoCall == [fn |-> "none", args |-> <<>>, out |-> [kind |-> "none", val |-> None],
           att |-> 0, hist |-> <<>>, seen |-> <<>>, conc |-> FALSE]

\* A call of a method decorated with replenishing_cursor: attempt 1 of
\* replenishing_cursor.wrapper.
Frame(fn, args) ==
    [fn |-> fn, args |-> args, deco |-> TRUE, att |-> 1, pc |-> "enter",
     conn |-> FALSE, tx |-> <<>>, exc |-> "none", loc |-> None, rv |-> <<>>,
     ph |-> 0, hist |-> <<>>, seen |-> <<>>, conc |-> FALSE]

\* A call of a method that is not decorated: it holds no connection.
PlainFrame(fn, args) ==
    [Frame(fn, args) EXCEPT !.deco = FALSE, !.pc = "body"]

Ret(v) == [kind |-> "ret", val |-> v]
Raise(e) == [kind |-> "raise", val |-> e]

Top(w) == wk[w].st[Len(wk[w].st)]
Below(w) == SubSeq(wk[w].st, 1, Len(wk[w].st) - 1)
Busy(w) == wk[w].st # <<>>
At(w, fn, pc) == Busy(w) /\ Top(w).fn = fn /\ Top(w).pc = pc

SetTop(w, f) == [wk[w] EXCEPT !.st = Append(Below(w), f)]

\* ------------------------------------------------- mysqlconnection.py
\* The pool as get_connection finds it, or creates it on first use.
PoolNow == IF pool.created THEN pool ELSE [created |-> TRUE, idle |-> POOL_SIZE]

\* get_connection(): the outcomes of taking a connection and running the
\* session set-up statement on it.  A connection whose set-up statement
\* raises is never closed.
get_connection ==
    IF PoolNow.idle = 0
    THEN {[res |-> "PoolError", idle |-> 0, leak |-> 0, fault |-> 0]}
    ELSE {[res |-> "ok", idle |-> PoolNow.idle - 1, leak |-> 0, fault |-> 0]}
         \cup (IF nfaults < MaxFaults
               THEN {[res |-> "DatabaseError", idle |-> PoolNow.idle - 1,
                      leak |-> 1, fault |-> 1]}
               ELSE {})

\* dbcursor.wrapper up to the try: get_connection(), then connection.cursor(),
\* which may raise as well; nothing closes the connection then.
dbcursor_enter ==
    get_connection \cup
    {[res |-> "DatabaseError", idle |-> r.idle, leak |-> 1, fault |-> 1] :
        r \in {x \in get_connection : x.res = "ok" /\ nfaults < MaxFaults}}

\* A wrapper whose handler catches every exception of the first attempt.
except_Exception(f, out) == f.deco /\ out.kind = "raise" /\ f.att = 1

\* replenishing_cursor.wrapper, except PoolError: the handler of the try
\* around the first dbcursor(func)(...) takes outcome out of frame f.
except_PoolError(f, out) ==
    f.deco /\ out.kind = "raise" /\ out.val = "PoolError" /\ f.att = 1

\* replenishing_cursor.wrapper and the caller: what becomes of a worker,
\* now cur, when the top frame of its stack st ends with outcome out.  A first PoolError
\* is caught and the frame goes on to replenish the pool, hist keeping what
\* was caught; any other outcome
\* goes to the caller: the worker itself, or the frame below.
Complete(cur, st, out) ==
    LET f == st[Len(st)]
        below == SubSeq(st, 1, Len(st) - 1)
    IN  IF except_PoolError(f, out)
        THEN [cur EXCEPT !.st =
                Append(below, [f EXCEPT !.pc = "replenish", !.conn = FALSE,
                                        !.hist = Append(@, out.val)])]
        ELSE IF below = <<>>
        THEN [st |-> <<>>,
              last |-> [fn |-> f.fn, args |-> f.args, out |-> out,
                        att |-> f.att, hist |-> f.hist,
                        seen |-> f.seen, conc |-> f.conc]]
        ELSE LET o == below[Len(below)] IN
             [cur EXCEPT !.st =
                Append(SubSeq(below, 1, Len(below) - 1),
                       IF out.kind = "ret"
                       THEN [o EXCEPT !.loc = out.val, !.pc = "cmp"]
                       ELSE [o EXCEPT !.exc = out.val, !.pc = "exit"])]

\* A worker, now cur, after frame f, pushed on the frames below, was entered
\* with outcome r.
Entered(cur, below, f, r) ==
    IF r.res = "ok"
    THEN [cur EXCEPT !.st = Append(below, [f EXCEPT !.pc = "body", !.conn = TRUE])]
    ELSE Complete(cur, Append(below, f), Raise(r.res))

EnterEffects(r) ==
    /\ pool' = [created |-> TRUE, idle |-> r.idle]
    /\ leaked' = leaked + r.leak
    /\ nfaults' = nfaults + r.fault

\* The except and finally blocks of dbcursor.wrapper for frame f:
\*   except:  connection.rollback(); raise
\*   finally: cursor.close(); connection.commit(); connection.close()
\* rollback() may raise, which replaces the exception and leaves the
\* transaction either open or gone; cursor.close() or commit() may raise,
\* which skips connection.close().  apply is what commit() makes visible.
dbcursor_exit_results(f) ==
    LET after_except ==
            IF f.exc = "none"
            THEN {[tx |-> f.tx, exc |-> "none", n |-> 0]}
            ELSE {[tx |-> <<>>, exc |-> f.exc, n |-> 0]} \cup
                 (IF nfaults < MaxFaults
                  THEN {[tx |-> t, exc |-> "DatabaseError", n |-> 1] :
                            t \in {f.tx, <<>>}}
                  ELSE {})
        finally(s) ==
            {[apply |-> s.tx, released |-> TRUE, exc |-> s.exc, n |-> s.n]} \cup
            (IF nfaults + s.n < MaxFaults
             THEN {[apply |-> <<>>, released |-> FALSE, exc |-> "DatabaseError",
                    n |-> s.n + 1]}
             ELSE {})
    IN  UNION {finally(s) : s \in after_except}

\* dbcursor.wrapper from the end of the body on.
dbcursor_exit(w) ==
    /\ Busy(w) /\ Top(w).pc = "exit" /\ Top(w).conn
    /\ \E r \in dbcursor_exit_results(Top(w)) :
        /\ refs' = ApplyRefs(refs, r.apply)
        /\ objs' = ApplyObjs(objs, r.apply)
        /\ pool' = IF r.released /\ pool.idle < POOL_SIZE
                   THEN [pool EXCEPT !.idle = @ + 1]
                   ELSE pool
        /\ leaked' = IF r.released THEN leaked ELSE leaked + 1
        /\ nfaults' = nfaults + r.n
        /\ wk' = [wk EXCEPT ![w] =
                    Complete(wk[w], wk[w].st,
                             IF r.exc = "none" THEN Ret(Top(w).rv[1])
                             ELSE Raise(r.exc))]
    /\ UNCHANGED others

\* replenishing_cursor.wrapper, except PoolError: add connections until the
\* queue is full.
replenish(w) ==
    /\ Busy(w) /\ Top(w).pc = "replenish"
    /\ pool' = [pool EXCEPT !.idle = POOL_SIZE]
    /\ wk' = [wk EXCEPT ![w] =
                SetTop(w, [Frame(Top(w).fn, Top(w).args) EXCEPT
                              !.att = 2, !.hist = Top(w).hist,
                              !.seen = Top(w).seen,
                              !.conc = Top(w).conc])]
    /\ UNCHANGED <<objs, refs, others, leaked, nfaults>>

\* ... then the second dbcursor(func)(*args, **kwargs).
reenter(w) ==
    /\ Busy(w) /\ Top(w).pc = "enter"
    /\ \E r \in dbcursor_enter :
        /\ EnterEffects(r)
        /\ wk' = [wk EXCEPT ![w] = Entered(wk[w], Below(w), Top(w), r)]
    /\ UNCHANGED <<objs, refs, others>>

\* The body, having come to frame f, raises e.
Raises(w, f, e) ==
    wk' = [wk EXCEPT ![w] = SetTop(w, [f EXCEPT !.exc = e, !.pc = "exit"])]

\* A statement of the body raises DatabaseError.
StatementFails(w) ==
    /\ nfaults < MaxFaults
    /\ nfaults' = nfaults + 1
    /\ Raises(w, Top(w), "DatabaseError")

\* The body goes on to the end of the function with these changes.
Returns(w, f) == wk' = [wk EXCEPT ![w] = SetTop(w, [f EXCEPT !.pc = "exit"])]

\* The body, having come to frame f, calls another decorated method.
CallsFrom(w, f, fn, args) ==
    \E r \in dbcursor_enter :
        /\ EnterEffects(r)
        /\ wk' = [wk EXCEPT ![w] =
                    Entered(wk[w], Append(Below(w), f), Frame(fn, args), r)]

Calls(w, fn, args) == CallsFrom(w, Top(w), fn, args)

\* A method that is not decorated returns or raises to its caller.
plain_exit(w) ==
    /\ Busy(w) /\ ~Top(w).deco /\ Top(w).pc = "exit"
    /\ wk' = [wk EXCEPT ![w] =
                Complete(wk[w], wk[w].st,
                         IF Top(w).exc = "none" THEN Ret(Top(w).rv[1])
                         ELSE Raise(Top(w).exc))]
    /\ UNCHANGED <<objs, refs, pool, others, leaked, nfaults>>

\* ------------------------------------- mysqlconnection.py: retry_operation
\* What one call of the wrapped function does: it returns, or raises one of
\* these exceptions.  IntegrityError is a subclass of DatabaseError.
Exceptions == {"DatabaseError", "IntegrityError", "PoolError", "KeyError"}

Outcomes == {"ok"} \cup Exceptions

isinstance(e, classes) ==
    e \in classes \/ (e = "IntegrityError" /\ "DatabaseError" \in classes)

\* The loop with one more round than range(retries).
one_more_round(made, retries) == made <= retries

\* for _ in range(retries): a round is left after `made` rounds.
range_has_next(made, retries) == made < retries

\* wrapped(*args, **kwargs) of retry_operation(retries, catches)(func):
\* ph counts the calls of func, hist lists their outcomes, loc is err.
wrapped(w) ==
    LET f == Top(w)
        a == f.args
    IN
    /\ At(w, "retry_operation", "body")
    /\ IF range_has_next(f.ph, a.retries)
       THEN \E o \in Outcomes :
              LET g == [f EXCEPT !.ph = @ + 1, !.hist = Append(@, o)] IN
              IF o = "ok"
              THEN Returns(w, [g EXCEPT !.rv = << <<"result", g.ph>> >>])
              ELSE IF isinstance(o, a.catches)
              THEN wk' = [wk EXCEPT ![w] = SetTop(w, [g EXCEPT !.loc = o])]
              ELSE Raises(w, g, o)
       ELSE Raises(w, f, IF f.loc = None THEN "TypeError" ELSE f.loc)
    /\ UNCHANGED <<objs, refs, pool, others, leaked, nfaults>>

\* ------------------------------------------- mysqlrepo.py: refs container
\* RefsContainer._follow: the last ref name of the chain of symbolic refs
\* that starts at name, and None when the chain is longer than 5.  The reads
\* it makes are taken as one read of the committed rows.
RECURSIVE FollowFrom(_, _, _)
FollowFrom(t, name, depth) ==
    IF depth > 5 THEN None
    ELSE IF IsSymref(t[name]) THEN FollowFrom(t, SymrefTarget(t[name]), depth + 1)
    ELSE name

_follow(repo, name) == FollowFrom(refs[repo], name, 0)

\* _update_ref(name, value, cursor): REPLACE INTO refs; the method takes the
\* cursor as its third argument and raises TypeError when called without.
_update_ref(f, name, value, cursor) ==
    IF cursor
    THEN [f EXCEPT !.tx = Append(@, [stmt |-> "REF_ADD", repo |-> f.args.repo,
                                     key |-> name, val |-> value])]
    ELSE [f EXCEPT !.exc = "TypeError"]

\* _remove_ref(name, cursor): DELETE FROM refs.
_remove_ref(f, name) ==
    [f EXCEPT !.tx = Append(@, [stmt |-> "REF_DEL", repo |-> f.args.repo,
                                key |-> name, val |-> None])]

\* The test with == for !=.
ref_differs_inverted(old_ref, current_ref) == old_ref = current_ref

\* old_ref != current_ref, the test of set_if_equals and remove_if_equals.
ref_differs(old_ref, current_ref) == old_ref # current_ref

\* The calls of the refs container on repositories R, refs N, values V.
RefsReads(R, N) ==
    {[fn |-> "read_loose_ref", args |-> [repo |-> r, name |-> n]] :
        r \in R, n \in N}
    \cup {[fn |-> "allkeys", args |-> [repo |-> r]] : r \in R}

SetIfEqualsCalls(R, N, V) ==
    {[fn |-> "set_if_equals",
      args |-> [repo |-> r, name |-> n, old_ref |-> o, new_ref |-> v]] :
        r \in R, n \in N, o \in V \cup {None}, v \in V}

RefsWrites(R, N, V) ==
    SetIfEqualsCalls(R, N, V)
    \cup {[fn |-> "set_symbolic_ref", args |-> [repo |-> r, name |-> n, other |-> m]] :
            r \in R, n \in N, m \in RefNames}
    \cup {[fn |-> "add_if_new", args |-> [repo |-> r, name |-> n, ref |-> v]] :
            r \in R, n \in N, v \in V}
    \cup {[fn |-> "remove_if_equals", args |-> [repo |-> r, name |-> n, old_ref |-> o]] :
            r \in R, n \in N, o \in V \cup {None}}

\* The workers that are inside the same call with the same arguments.
Racing(w, c) ==
    {v \in Workers \ {w} :
        Busy(v) /\ wk[v].st[1].fn = c.fn /\ wk[v].st[1].args = c.args}

\* Worker w calls c: the frame is pushed and entered.  seen and conc record
\* the committed tables and the pool at the call and whether the same call was running in
\* another worker.  Unless keep, the results of the
\* calls that finished before are forgotten.
Idle == [st |-> <<>>, last |-> NoCall]

Begun(w, c, keep, me) ==
    wk' = [v \in Workers |->
              IF v = w THEN me
              ELSE IF v \in Racing(w, c)
              THEN [wk[v] EXCEPT !.st[1].conc = TRUE]
              ELSE IF Busy(v) \/ keep THEN wk[v] ELSE Idle]

Ghosts(w, c, f) ==
    [f EXCEPT !.seen = [refs |-> refs, objs |-> objs,
                        pool |-> pool, leaked |-> leaked],
              !.conc = Racing(w, c) # {}]

Call(w, c, keep) ==
    /\ ~Busy(w)
    /\ \E r \in dbcursor_enter :
        /\ EnterEffects(r)
        /\ Begun(w, c, keep,
                 Entered(Idle, <<>>, Ghosts(w, c, Frame(c.fn, c.args)), r))
    /\ UNCHANGED <<objs, refs, others>>

\* Worker w calls c, a method that is not decorated.
PlainCall(w, c, keep) ==
    /\ ~Busy(w)
    /\ Begun(w, c, keep,
             [Idle EXCEPT !.st = <<Ghosts(w, c, PlainFrame(c.fn, c.args))>>])
    /\ UNCHANGED <<objs, refs, pool, others, leaked, nfaults>>

read_loose_ref(w) ==
    /\ At(w, "read_loose_ref", "body")
    /\ \/ /\ Returns(w, [Top(w) EXCEPT
                            !.rv = <<refs[Top(w).args.repo][Top(w).args.name]>>])
          /\ UNCHANGED nfaults
       \/ StatementFails(w)
    /\ UNCHANGED <<objs, refs, pool, others, leaked>>

allkeys(w) ==
    /\ At(w, "allkeys", "body")
    /\ \/ /\ Returns(w, [Top(w) EXCEPT
                !.rv = <<{n \in RefNames : refs[Top(w).args.repo][n] # None}>>])
          /\ UNCHANGED nfaults
       \/ StatementFails(w)
    /\ UNCHANGED <<objs, refs, pool, others, leaked>>

set_if_equals(w) ==
    LET f == Top(w)
        a == f.args
        realname == _follow(a.repo, a.name)
    IN
    \/ /\ At(w, "set_if_equals", "body") /\ a.old_ref # None
       /\ Calls(w, "read_loose_ref", [repo |-> a.repo, name |-> a.name])
       /\ UNCHANGED <<objs, refs, others>>
    \/ /\ At(w, "set_if_equals", "cmp") /\ ref_differs(a.old_ref, f.loc)
       /\ Returns(w, [f EXCEPT !.rv = <<FALSE>>])
       /\ UNCHANGED <<objs, refs, pool, others, leaked, nfaults>>
    \/ /\ \/ At(w, "set_if_equals", "body") /\ a.old_ref = None
          \/ At(w, "set_if_equals", "cmp") /\ ~ref_differs(a.old_ref, f.loc)
       /\ \/ /\ realname # None
             /\ Returns(w, [_update_ref(f, realname, a.new_ref, TRUE) EXCEPT
                               !.rv = <<TRUE>>])
             /\ UNCHANGED nfaults
          \/ StatementFails(w)
       /\ UNCHANGED <<objs, refs, pool, others, leaked>>

set_symbolic_ref(w) ==
    LET f == Top(w) IN
    /\ At(w, "set_symbolic_ref", "body")
    /\ Returns(w, [_update_ref(f, f.args.name, Symref(f.args.other), FALSE)
                      EXCEPT !.rv = <<None>>])
    /\ UNCHANGED <<objs, refs, pool, others, leaked, nfaults>>

\* A value Python takes as true: here, a ref that is there.
Truthy(v) == v # None

add_if_new(w) ==
    LET f == Top(w)
        a == f.args
    IN
    \/ /\ At(w, "add_if_new", "body")
       /\ Calls(w, "read_loose_ref", [repo |-> a.repo, name |-> a.name])
       /\ UNCHANGED <<objs, refs, others>>
    \/ /\ At(w, "add_if_new", "cmp") /\ Truthy(f.loc)
       /\ Returns(w, [f EXCEPT !.rv = <<FALSE>>])
       /\ UNCHANGED <<objs, refs, pool, others, leaked, nfaults>>
    \/ /\ At(w, "add_if_new", "cmp") /\ ~Truthy(f.loc)
       /\ Returns(w, [_update_ref(f, a.name, a.ref, FALSE) EXCEPT !.rv = <<TRUE>>])
       /\ UNCHANGED <<objs, refs, pool, others, leaked, nfaults>>

remove_if_equals(w) ==
    LET f == Top(w)
        a == f.args
    IN
    \/ /\ At(w, "remove_if_equals", "body") /\ a.old_ref # None
       /\ Calls(w, "read_loose_ref", [repo |-> a.repo, name |-> a.name])
       /\ UNCHANGED <<objs, refs, others>>
    \/ /\ At(w, "remove_if_equals", "cmp") /\ ref_differs(a.old_ref, f.loc)
       /\ Returns(w, [f EXCEPT !.rv = <<FALSE>>])
       /\ UNCHANGED <<objs, refs, pool, others, leaked, nfaults>>
    \/ /\ \/ At(w, "remove_if_equals", "body") /\ a.old_ref = None
          \/ At(w, "remove_if_equals", "cmp") /\ ~ref_differs(a.old_ref, f.loc)
       /\ \/ /\ Returns(w, [_remove_ref(f, a.name) EXCEPT !.rv = <<TRUE>>])
             /\ UNCHANGED nfaults
          \/ StatementFails(w)
       /\ UNCHANGED <<objs, refs, pool, others, leaked>>

\* -------------------------------------------- mysqlrepo.py: object store
\* 20-byte binary object ids, and a string that is neither form.
BinShas == {"b1", "b2"}
BadSha == "bad"

len_sha(sha) == IF sha \in Shas THEN 40 ELSE IF sha \in BinShas THEN 20 ELSE 3

sha_to_hex(sha) == CASE sha = "b1" -> "s1" [] sha = "b2" -> "s2"

ValueError == "ValueError"

_to_hexsha(sha) ==
    IF len_sha(sha) = 40 THEN sha
    ELSE IF len_sha(sha) = 20 THEN sha_to_hex(sha)
    ELSE ValueError

\* Objects: an id, a type number and the raw string.
Contents == {[type_num |-> 3, data |-> "p"], [type_num |-> 2, data |-> "qq"]}

ObjectsOf(I) ==
    {[id |-> i, type_num |-> c.type_num, data |-> c.data] : i \in I, c \in Contents}

len_data(data) == CASE data = "p" -> 1 [] data = "qq" -> 2

COMPRESS(data) == <<"zlib", data>>
UNCOMPRESS(z) == z[2]

\* statements["ADD"] with its parameters: a row (type, size, data) under
\* the key (oid, repo).
ADD(oid, tnum, size, data, repo) ==
    [stmt |-> "OBJ_ADD", repo |-> repo, key |-> oid,
     val |-> <<tnum, size, COMPRESS(data)>>]

\* statements["DEL"].
DEL(oid, repo) == [stmt |-> "OBJ_DEL", repo |-> repo, key |-> oid, val |-> NoRow]

\* SELECT EXISTS without the test of the repo column.
HAS_any_repo(oid, repo) == \E r \in DOMAIN objs : objs[r][oid] # NoRow

\* statements["HAS"], ["ALL"] and ["GET"] on the committed rows; fetchone()
\* gives None, here NoRow, when no row is selected.
HAS(oid, repo) == objs[repo][oid] # NoRow
ALL(repo) == {o \in DOMAIN objs[repo] : objs[repo][o] # NoRow}
GET(oid, repo) ==
    IF objs[repo][oid] = NoRow THEN NoRow
    ELSE <<objs[repo][oid][1], UNCOMPRESS(objs[repo][oid][3])>>

_add_object(f, obj) ==
    [f EXCEPT !.tx = Append(@, ADD(obj.id, obj.type_num, len_data(obj.data),
                                   obj.data, f.args.repo))]

_has_sha(w) ==
    /\ At(w, "_has_sha", "body")
    /\ \/ /\ Returns(w, [Top(w) EXCEPT
                            !.rv = <<HAS(Top(w).args.sha, Top(w).args.repo)>>])
          /\ UNCHANGED nfaults
       \/ StatementFails(w)
    /\ UNCHANGED <<objs, refs, pool, others, leaked>>

_all_shas(w) ==
    /\ At(w, "_all_shas", "body")
    /\ \/ /\ Returns(w, [Top(w) EXCEPT !.rv = <<ALL(Top(w).args.repo)>>])
          /\ UNCHANGED nfaults
       \/ StatementFails(w)
    /\ UNCHANGED <<objs, refs, pool, others, leaked>>

\* contains_loose(sha): self._has_sha(self._to_hexsha(sha)).
contains_loose(w) ==
    LET f == Top(w) IN
    \/ /\ At(w, "contains_loose", "body") /\ _to_hexsha(f.args.sha) = ValueError
       /\ Raises(w, f, ValueError)
       /\ UNCHANGED <<objs, refs, pool, others, leaked, nfaults>>
    \/ /\ At(w, "contains_loose", "body") /\ _to_hexsha(f.args.sha) # ValueError
       /\ Calls(w, "_has_sha", [repo |-> f.args.repo, sha |-> _to_hexsha(f.args.sha)])
       /\ UNCHANGED <<objs, refs, others>>
    \/ /\ At(w, "contains_loose", "cmp")
       /\ Returns(w, [f EXCEPT !.rv = <<f.loc>>])
       /\ UNCHANGED <<objs, refs, pool, others, leaked, nfaults>>

\* get_raw(name): _to_hexsha runs inside the body, on the connection.
get_raw(w) ==
    LET f == Top(w) IN
    /\ At(w, "get_raw", "body")
    /\ \/ /\ _to_hexsha(f.args.name) = ValueError
          /\ Raises(w, f, ValueError)
          /\ UNCHANGED nfaults
       \/ /\ _to_hexsha(f.args.name) # ValueError
          /\ Returns(w, [f EXCEPT !.rv = <<GET(_to_hexsha(f.args.name), f.args.repo)>>])
          /\ UNCHANGED nfaults
       \/ /\ _to_hexsha(f.args.name) # ValueError
          /\ StatementFails(w)
    /\ UNCHANGED <<objs, refs, pool, others, leaked>>

add_object(w) ==
    /\ At(w, "add_object", "body")
    /\ \/ /\ Returns(w, [_add_object(Top(w), Top(w).args.obj) EXCEPT !.rv = <<None>>])
          /\ UNCHANGED nfaults
       \/ StatementFails(w)
    /\ UNCHANGED <<objs, refs, pool, others, leaked>>

\* An element of the iterable given to add_objects is a pair (object, path);
\* unpacking any other element raises.
IsPair(e) == Len(e) = 2

\* add_objects(objects): executemany runs the statement for one element
\* after the other; the first k are done when the generator raises on element
\* k + 1 or the statement for it fails.
add_objects(w) ==
    LET f == Top(w)
        b == f.args.objects
        done(k) == [f EXCEPT !.tx = @ \o [i \in 1..k |->
                        ADD(b[i][1].id, b[i][1].type_num, len_data(b[i][1].data),
                            b[i][1].data, f.args.repo)]]
    IN
    /\ At(w, "add_objects", "body")
    /\ \E k \in 0..Len(b) :
        /\ \A i \in 1..k : IsPair(b[i])
        /\ \/ /\ k = Len(b)
              /\ Returns(w, [done(k) EXCEPT !.rv = <<None>>])
              /\ UNCHANGED nfaults
           \/ /\ k < Len(b) /\ ~IsPair(b[k + 1])
              /\ Raises(w, done(k), ValueError)
              /\ UNCHANGED nfaults
           \/ /\ k < Len(b) /\ IsPair(b[k + 1])
              /\ nfaults < MaxFaults
              /\ nfaults' = nfaults + 1
              /\ Raises(w, done(k), "DatabaseError")
    /\ UNCHANGED <<objs, refs, pool, others, leaked>>

delete_objects(w) ==
    LET f == Top(w)
        ids == f.args.object_ids
        done(k) == [f EXCEPT !.tx = @ \o [i \in 1..k |-> DEL(ids[i], f.args.repo)]]
    IN
    /\ At(w, "delete_objects", "body")
    /\ \/ /\ Returns(w, [done(Len(ids)) EXCEPT !.rv = <<None>>])
          /\ UNCHANGED nfaults
       \/ /\ nfaults < MaxFaults
          /\ nfaults' = nfaults + 1
          /\ \E k \in 0..(Len(ids) - 1) : Raises(w, done(k), "DatabaseError")
    /\ UNCHANGED <<objs, refs, pool, others, leaked>>

\* add_pack with a body that inserts the objects of the pack its caller
\* receives, through its own cursor, before the pack is read and verified.
add_pack_eager(w) ==
    LET f == Top(w)
        os == wk[w].st[Len(wk[w].st) - 1].args.pack.objects
    IN
    /\ At(w, "add_pack", "body")
    /\ Returns(w, [f EXCEPT !.rv = <<"pack">>,
                            !.tx = [i \in DOMAIN os |->
                                ADD(os[i].id, os[i].type_num, len_data(os[i].data),
                                    os[i].data, f.args.repo)]])
    /\ UNCHANGED <<objs, refs, pool, others, leaked, nfaults>>

\* add_pack(): returns (f, commit, abort); the body runs no statement.  The
\* cursor that commit() keeps is closed, with its connection, when add_pack
\* returns.
add_pack(w) ==
    /\ At(w, "add_pack", "body")
    /\ Returns(w, [Top(w) EXCEPT !.rv = <<"pack">>])
    /\ UNCHANGED <<objs, refs, pool, others, leaked, nfaults>>

\* A thin pack as add_thin_pack reads it: the objects it holds, the ids of
\* the objects it refers to outside the pack, and whether the stream is
\* complete.
ThinPacks(I, E) ==
    {[objects |-> os, ext_refs |-> es, complete |-> c] :
        os \in SeqsUpTo(ObjectsOf(I), 1), es \in SeqsUpTo(E, 1), c \in BOOLEAN}

\* The cursor given to method fn of worker w is connected from dbcursor's
\* connection.cursor() to its cursor.close(): while the call is on the stack
\* with its connection.
CursorConnected(w, fn) ==
    \E i \in DOMAIN wk[w].st : wk[w].st[i].fn = fn /\ wk[w].st[i].conn

\* add_thin_pack(read_all, read_some).  ph counts the calls of get_raw made:
\* the indexer resolves every external reference, then _complete_thin_pack
\* reads each of them again.  A reference that is not stored makes get_raw
\* return None, which neither caller can unpack.  commit() then adds the
\* objects of the completed pack through the cursor add_pack was given;
\* hist records the statement and whether that cursor was connected, and
\* execute on a cursor that is not raises ProgrammingError.
add_thin_pack(w) ==
    LET f == Top(w)
        pack == f.args.pack
        n == Len(pack.ext_refs)
        resolved == IF f.ph = 0 THEN TRUE ELSE f.loc # NoRow
    IN
    \/ /\ At(w, "add_thin_pack", "body")
       /\ Calls(w, "add_pack", [repo |-> f.args.repo])
       /\ UNCHANGED <<objs, refs, others>>
    \/ /\ At(w, "add_thin_pack", "cmp") /\ ~pack.complete
       /\ Raises(w, f, "PackError")
       /\ UNCHANGED <<objs, refs, pool, others, leaked, nfaults>>
    \/ /\ At(w, "add_thin_pack", "cmp") /\ pack.complete
       /\ resolved /\ f.ph < 2 * n
       /\ CallsFrom(w, [f EXCEPT !.ph = @ + 1], "get_raw",
                    [repo |-> f.args.repo, name |-> pack.ext_refs[(f.ph % n) + 1]])
       /\ UNCHANGED <<objs, refs, others>>
    \/ /\ At(w, "add_thin_pack", "cmp") /\ pack.complete
       /\ ~resolved
       /\ Raises(w, f, "TypeError")
       /\ UNCHANGED <<objs, refs, pool, others, leaked, nfaults>>
    \/ /\ At(w, "add_thin_pack", "cmp") /\ pack.complete
       /\ resolved /\ f.ph = 2 * n
       /\ ~CursorConnected(w, "add_pack")
       /\ IF pack.objects = <<>> /\ n = 0
          THEN Returns(w, [f EXCEPT !.rv = <<None>>])
          ELSE Raises(w, [f EXCEPT !.hist = Append(@,
                              [stmt |-> "ADD",
                               connected |-> CursorConnected(w, "add_pack")])],
                      "ProgrammingError")
       /\ UNCHANGED <<objs, refs, pool, others, leaked, nfaults>>

\* ------------------------------------------------------ specifications
Oids == Shas

\* Module state after import, empty tables, and the connections that workers
\* outside the model hold.
Init ==
    /\ others \in OtherHolds
    /\ pool = [created |-> others > 0, idle |-> POOL_SIZE - others]
    /\ leaked = 0
    /\ wk = [w \in Workers |-> Idle]
    /\ nfaults = 0
    /\ objs = [r \in Repos |-> [o \in Oids |-> NoRow]]
    /\ refs = [r \in Repos |-> [n \in RefNames |-> None]]

Wrapper(w) == dbcursor_exit(w) \/ replenish(w) \/ reenter(w)

RefsBodies(w) ==
    \/ read_loose_ref(w)
    \/ allkeys(w)
    \/ set_if_equals(w)
    \/ set_symbolic_ref(w)
    \/ add_if_new(w)
    \/ remove_if_equals(w)

\* One worker on the refs container of repository A.
RefsCalls == RefsReads({"A"}, RefNames) \cup RefsWrites({"A"}, RefNames, Shas)

Next ==
    \/ \E c \in RefsCalls : Call("w1", c, FALSE)
    \/ Wrapper("w1")
    \/ RefsBodies("w1")

Spec == Init /\ [][Next]_vars

\* Two workers, one call of set_if_equals each, on ref HEAD of repository A
\* holding any value set_if_equals can have stored there.
RaceCalls == SetIfEqualsCalls({"A"}, {"HEAD"}, Shas)

InitRace ==
    /\ others \in OtherHolds
    /\ pool = [created |-> others > 0, idle |-> POOL_SIZE - others]
    /\ leaked = 0
    /\ wk = [w \in Workers |-> Idle]
    /\ nfaults = 0
    /\ objs = [r \in Repos |-> [o \in Oids |-> NoRow]]
    /\ \E v \in Shas \cup {None} :
          refs = [r \in Repos |-> [n \in RefNames |->
                     IF r = "A" /\ n = "HEAD" THEN v ELSE None]]

NextRace ==
    \E w \in Workers :
        \/ \E c \in RaceCalls : wk[w].last = NoCall /\ Call(w, c, TRUE)
        \/ Wrapper(w)
        \/ read_loose_ref(w)
        \/ set_if_equals(w)

SpecRace == InitRace /\ [][NextRace]_vars

\* The calls of the object store on repositories R, ids I (ids J in the
\* iterables), sha arguments S.
Elements(I) == {<<o, None>> : o \in ObjectsOf(I)} \cup {<<None>>}

ObjsReads(R, S) ==
    {[fn |-> "get_raw", args |-> [repo |-> r, name |-> x]] : r \in R, x \in S}
    \cup {[fn |-> "_all_shas", args |-> [repo |-> r]] : r \in R}

ContainsCalls(R, S) ==
    {[fn |-> "contains_loose", args |-> [repo |-> r, sha |-> x]] : r \in R, x \in S}

ObjsWrites(R, I, J) ==
    {[fn |-> "add_object", args |-> [repo |-> r, obj |-> o]] :
        r \in R, o \in ObjectsOf(I)}
    \cup {[fn |-> "add_objects", args |-> [repo |-> r, objects |-> b]] :
            r \in R, b \in SeqsUpTo(Elements(J), MaxBatch)}
    \cup {[fn |-> "delete_objects", args |-> [repo |-> r, object_ids |-> d]] :
            r \in R, d \in SeqsUpTo(J, MaxBatch)}

ObjsBodies(w) ==
    \/ _has_sha(w)
    \/ _all_shas(w)
    \/ contains_loose(w)
    \/ get_raw(w)
    \/ add_object(w)
    \/ add_objects(w)
    \/ delete_objects(w)

\* One worker on the object store of repository A.
ShaArgs == Shas \cup BinShas \cup {BadSha}

ObjsCalls == ObjsReads({"A"}, ShaArgs) \cup ObjsWrites({"A"}, Oids, {"s1"})

NextObjs ==
    \/ \E c \in ObjsCalls : Call("w1", c, FALSE)
    \/ \E c \in ContainsCalls({"A"}, ShaArgs) : PlainCall("w1", c, FALSE)
    \/ Wrapper("w1")
    \/ plain_exit("w1")
    \/ ObjsBodies("w1")

SpecObjs == Init /\ [][NextObjs]_vars

\* One worker that writes to repository A, objects and refs, and reads
\* repository B, which is empty or holds rows under the keys A is written at.
IsoWrites ==
    ObjsWrites({"A"}, {"s1"}, {"s1"})
    \cup RefsWrites({"A"}, {"HEAD"}, {"s1"})

IsoThinPacks ==
    {[fn |-> "add_thin_pack", args |-> [repo |-> "A", pack |-> t]] :
        t \in ThinPacks({"s1"}, {"b1"})}

IsoShaArgs == {"s1", "b1", BadSha}

IsoReads == ObjsReads({"B"}, IsoShaArgs) \cup RefsReads({"B"}, {"HEAD"})

InitIso ==
    /\ others \in OtherHolds
    /\ pool = [created |-> others > 0, idle |-> POOL_SIZE - others]
    /\ leaked = 0
    /\ wk = [w \in Workers |-> Idle]
    /\ nfaults = 0
    /\ \E full \in BOOLEAN :
        /\ objs = [r \in Repos |-> [o \in Oids |->
                     IF full /\ r = "B" /\ o = "s1"
                     THEN <<3, 1, COMPRESS("p")>> ELSE NoRow]]
        /\ refs = [r \in Repos |-> [n \in RefNames |->
                     IF full /\ r = "B" /\ n = "HEAD" THEN "s1" ELSE None]]

NextIso ==
    \/ \E c \in IsoWrites \cup IsoReads : Call("w1", c, FALSE)
    \/ \E c \in IsoThinPacks \cup ContainsCalls({"B"}, IsoShaArgs) :
            PlainCall("w1", c, FALSE)
    \/ Wrapper("w1")
    \/ plain_exit("w1")
    \/ RefsBodies("w1")
    \/ ObjsBodies("w1")
    \/ add_pack("w1")
    \/ add_thin_pack("w1")

SpecIso == InitIso /\ [][NextIso]_vars

\* One worker that calls functions wrapped by retry_operation.
CatchSets == {{"DatabaseError"}, {"DatabaseError", "PoolError"}}

RetryCalls ==
    {[fn |-> "retry_operation", args |-> [retries |-> n, catches |-> C]] :
        n \in (0..MaxRetries) \cup {DEFAULT_RETRIES}, C \in CatchSets}

NextRetry ==
    \/ \E c \in RetryCalls : PlainCall("w1", c, FALSE)
    \/ wrapped("w1")
    \/ plain_exit("w1")

SpecRetry == Init /\ [][NextRetry]_vars

\* ------------------------------------------------- the pool under load
\* get_connection() by a thread outside the model: it takes an idle
\* connection, and keeps it.
other_get_connection ==
    /\ PoolNow.idle > 0 /\ others < MaxOthers
    /\ pool' = [created |-> TRUE, idle |-> PoolNow.idle - 1]
    /\ others' = others + 1
    /\ UNCHANGED <<objs, refs, leaked, wk, nfaults>>

\* connection.close() by such a thread: the connection goes back to the
\* queue, or is discarded when the queue is full.
other_close ==
    /\ others > 0
    /\ others' = others - 1
    /\ pool' = IF pool.idle < POOL_SIZE THEN [pool EXCEPT !.idle = @ + 1] ELSE pool
    /\ UNCHANGED <<objs, refs, leaked, wk, nfaults>>

PoolCalls ==
    RefsReads({"A"}, {"HEAD"}) \cup SetIfEqualsCalls({"A"}, {"HEAD"}, {"s1"})

NextPool ==
    \/ \E c \in PoolCalls : Call("w1", c, FALSE)
    \/ Wrapper("w1")
    \/ read_loose_ref("w1")
    \/ allkeys("w1")
    \/ set_if_equals("w1")
    \/ other_get_connection
    \/ other_close

SpecPool == Init /\ [][NextPool]_vars

\* ------------------------------------------------------------ MysqlRepo
\* MysqlRepo.__init__(name): the handle, with its object store and refs
\* container of that name; no statement is executed.
MysqlRepo(name) == [_name |-> name, bare |-> TRUE]

\* init_bare(name): return cls(name)
init_bare(w) ==
    /\ At(w, "init_bare", "body")
    /\ Returns(w, [Top(w) EXCEPT !.rv = <<MysqlRepo(Top(w).args.name)>>])
    /\ UNCHANGED <<objs, refs, pool, others, leaked, nfaults>>

\* open(name): return cls(name)
open(w) ==
    /\ At(w, "open", "body")
    /\ Returns(w, [Top(w) EXCEPT !.rv = <<MysqlRepo(Top(w).args.name)>>])
    /\ UNCHANGED <<objs, refs, pool, others, leaked, nfaults>>

\* SELECT EXISTS(SELECT 1 FROM objs WHERE repo = name)
EXISTS(t, name) == \E o \in DOMAIN t[name] : t[name][o] # NoRow

\* repo_exists(name)
repo_exists(w) ==
    /\ At(w, "repo_exists", "body")
    /\ \/ /\ Returns(w, [Top(w) EXCEPT !.rv = <<EXISTS(objs, Top(w).args.name)>>])
          /\ UNCHANGED nfaults
       \/ StatementFails(w)
    /\ UNCHANGED <<objs, refs, pool, others, leaked>>

\* list_repos(): SELECT DISTINCT repo FROM objs
list_repos(w) ==
    /\ At(w, "list_repos", "body")
    /\ \/ /\ Returns(w, [Top(w) EXCEPT !.rv = <<{r \in Repos : EXISTS(objs, r)}>>])
          /\ UNCHANGED nfaults
       \/ StatementFails(w)
    /\ UNCHANGED <<objs, refs, pool, others, leaked>>

\* delete_repo that deletes the rows of objs and leaves those of refs.
delete_repo_objs_only(w) ==
    LET f == Top(w)
        del_objs == [stmt |-> "OBJ_DEL_REPO", repo |-> f.args.name]
    IN
    /\ At(w, "delete_repo", "body")
    /\ \/ /\ Returns(w, [f EXCEPT !.tx = @ \o <<del_objs>>, !.rv = <<None>>])
          /\ UNCHANGED nfaults
       \/ StatementFails(w)
    /\ UNCHANGED <<objs, refs, pool, others, leaked>>

\* delete_repo(name): DELETE FROM objs, then DELETE FROM refs, either of
\* which may fail.
delete_repo(w) ==
    LET f == Top(w)
        del_objs == [stmt |-> "OBJ_DEL_REPO", repo |-> f.args.name]
        del_refs == [stmt |-> "REF_DEL_REPO", repo |-> f.args.name]
    IN
    /\ At(w, "delete_repo", "body")
    /\ \/ /\ Returns(w, [f EXCEPT !.tx = @ \o <<del_objs, del_refs>>,
                                  !.rv = <<None>>])
          /\ UNCHANGED nfaults
       \/ StatementFails(w)
    /\ UNCHANGED <<objs, refs, pool, others, leaked>>

\* The registry and, to fill a repository, the store and the refs container.
RegistryCalls ==
    {[fn |-> fn, args |-> [name |-> r]] :
        fn \in {"repo_exists", "delete_repo"}, r \in Repos}
    \cup {[fn |-> "list_repos", args |-> <<>>]}

HandleCalls ==
    {[fn |-> fn, args |-> [name |-> r]] : fn \in {"init_bare", "open"}, r \in Repos}

StoreCalls ==
    {[fn |-> "add_object", args |-> [repo |-> r, obj |-> o]] :
        r \in Repos, o \in ObjectsOf({"s1"})}
    \cup SetIfEqualsCalls(Repos, {"HEAD"}, {"s1"})

NextRepo ==
    \/ \E c \in RegistryCalls \cup StoreCalls : Call("w1", c, FALSE)
    \/ \E c \in HandleCalls : PlainCall("w1", c, FALSE)
    \/ Wrapper("w1")
    \/ init_bare("w1")
    \/ open("w1")
    \/ repo_exists("w1")
    \/ list_repos("w1")
    \/ delete_repo("w1")
    \/ add_object("w1")
    \/ read_loose_ref("w1")
    \/ set_if_equals("w1")
    \/ plain_exit("w1")

SpecRepo == Init /\ [][NextRepo]_vars

\* ------------------------------------------------------------ swift-web.py
HTTP_OK == "200 OK"
HTTP_NOT_FOUND == "404 Not Found"
HTTP_ERROR == "500 Internal Server Error"

\* The methods of class HTTPGitRequest.
HTTPGitRequest == {"add_header", "respond", "not_found", "error"}

\* dulwich.server.DEFAULT_HANDLERS: the two transfer services.
DEFAULT_HANDLERS == {"git-upload-pack", "git-receive-pack"}

\* A request: REQUEST_METHOD, PATH_INFO as the repository prefix and the rest,
\* and the service parameter of QUERY_STRING (None when there is none).
Methods == {"GET", "POST", "PUT"}
Routes == {"/info/refs", "/git-upload-pack", "/git-receive-pack", "/HEAD"}
Prefixes == {"A", "C"}
Services == {None, "git-upload-pack", "git-receive-pack", "git-upload-archive"}

\* The repositories that the backend can open.
Containers == {"A"}

\* HTTPGitApplication.services, and the search of __call__ through it.
services(method, route) ==
    IF method = "GET" /\ route = "/info/refs" THEN "get_info_refs"
    ELSE IF method = "POST" /\ route \in {"/git-upload-pack", "/git-receive-pack"}
    THEN "handle_service_request"
    ELSE None

\* mat.group().lstrip('/')
lstrip(route) ==
    CASE route = "/git-upload-pack" -> "git-upload-pack"
      [] route = "/git-receive-pack" -> "git-receive-pack"
      [] route = "/info/refs" -> "info/refs"
      [] OTHER -> "HEAD"

\* req.respond(status, content_type): start_response is called with them.
respond(status, content_type) ==
    [ev |-> "start_response", status |-> status, content_type |-> content_type]

\* req.not_found(message)
not_found == respond(HTTP_NOT_FOUND, <<"text/plain">>)

\* backend.open_repository(path): the repository, or InvalidRepoException.
open_repository(path) ==
    [ev |-> "open_repository",
     status |-> IF path \in Containers THEN "ok" ELSE "InvalidRepoException",
     content_type |-> <<>>]

\* handler.handle()
handle == [ev |-> "handle", status |-> "ok", content_type |-> <<>>]

\* HTTPGitApplication.__call__(environ, start_response): hist is what the
\* request has done so far; loc is the handler found.
HTTPGitApplication(w) ==
    LET f == Top(w)
        handler == services(f.args.method, f.args.route)
    IN
    /\ At(w, "HTTPGitApplication", "body")
    /\ \/ /\ handler = None
          /\ Returns(w, [f EXCEPT !.hist = Append(@, not_found),
                                  !.rv = <<"Sorry, that method is not supported">>])
       \/ /\ handler # None
          /\ wk' = [wk EXCEPT ![w] =
                      SetTop(w, [f EXCEPT !.loc = handler, !.pc = "handler"])]
    /\ UNCHANGED <<objs, refs, pool, others, leaked, nfaults>>

\* get_info_refs(req, backend, mat).  HTTPGitRequest has no method forbidden:
\* req.forbidden raises AttributeError.
get_info_refs(w) ==
    LET f == Top(w)
        service == f.args.service
        repo == open_repository(f.args.prefix)
    IN
    /\ At(w, "HTTPGitApplication", "handler") /\ f.loc = "get_info_refs"
    /\ \/ /\ service = None
          /\ Returns(w, [f EXCEPT !.hist = Append(@, not_found), !.rv = <<"">>])
       \/ /\ service # None /\ service \notin DEFAULT_HANDLERS
          /\ "forbidden" \notin HTTPGitRequest
          /\ Raises(w, f, "AttributeError")
       \/ /\ service \in DEFAULT_HANDLERS /\ repo.status # "ok"
          /\ Returns(w, [f EXCEPT !.hist = @ \o <<repo, not_found>>, !.rv = <<"">>])
       \/ /\ service \in DEFAULT_HANDLERS /\ repo.status = "ok"
          /\ Returns(w, [f EXCEPT
                !.hist = @ \o <<repo,
                                respond(HTTP_OK, <<"application/x-", service,
                                                   "-advertisement">>),
                                repo, handle>>,
                !.rv = <<"">>])
    /\ UNCHANGED <<objs, refs, pool, others, leaked, nfaults>>

\* handle_service_request(req, backend, mat): req.respond(HTTP_OK, ...), then
\* (ph = 1) the handler is made, which opens the repository, and handles.
handle_service_request(w) ==
    LET f == Top(w)
        service == lstrip(f.args.route)
        repo == open_repository(f.args.prefix)
    IN
    /\ At(w, "HTTPGitApplication", "handler") /\ f.loc = "handle_service_request"
    /\ \/ /\ f.ph = 0
          /\ IF service \notin DEFAULT_HANDLERS
             THEN Raises(w, f, "AttributeError")
             ELSE wk' = [wk EXCEPT ![w] =
                    SetTop(w, [f EXCEPT
                        !.hist = Append(@, respond(HTTP_OK,
                                     <<"application/x-", service, "-result">>)),
                        !.ph = 1])]
       \/ /\ f.ph = 1
          /\ IF repo.status = "ok"
             THEN Returns(w, [f EXCEPT !.hist = @ \o <<repo, handle>>,
                                       !.rv = <<"">>])
             ELSE Raises(w, [f EXCEPT !.hist = Append(@, repo)], repo.status)
    /\ UNCHANGED <<objs, refs, pool, others, leaked, nfaults>>

Requests ==
    [method : Methods, prefix : Prefixes, route : Routes, service : Services]

HttpCalls == {[fn |-> "HTTPGitApplication", args |-> req] : req \in Requests}

NextHttp ==
    \/ \E c \in HttpCalls : PlainCall("w1", c, FALSE)
    \/ HTTPGitApplication("w1")
    \/ get_info_refs("w1")
    \/ handle_service_request("w1")
    \/ plain_exit("w1")

SpecHttp == Init /\ [][NextHttp]_vars

\* The declared CONTENT_LENGTH: <<>> when the header is empty or missing,
\* else <<L>>; the bytes that the transport can deliver, which may be more;
\* the sizes that the handler passes to read.
ContentLengths == {<<>>} \cup {<<L>> : L \in 0..MaxLen}
Bodies == 0..(MaxLen + 1)
Sizes == {-1} \cup (0..(MaxLen + 1))

Min(a, b) == IF a < b THEN a ELSE b

\* A read that asks only for what is left of one that asks for all of it.
size_unless_all(size, _bytes_avail) ==
    IF size = -1 THEN _bytes_avail ELSE size

\* _LengthLimitedFile.read: if size == -1 or size > self._bytes_avail:
\*                              size = self._bytes_avail
size_capped(size, _bytes_avail) ==
    IF size = -1 \/ size > _bytes_avail THEN _bytes_avail ELSE size

\* self._input.read(size) on a transport that holds rest bytes: all of them
\* for size -1, else at most size, and possibly fewer.
input_read(size, rest) ==
    IF size = -1 THEN {rest} ELSE 0..Min(size, rest)

\* The reads made of a file so far, taken as the loop of a handler that
\* reads with positive sizes until it gets '': "reading" while every read
\* had a positive size and returned bytes, "done" when the next one has
\* returned '' at the end (end) of the budget or of the transport, "other"
\* for any other reads.
loop_after(file, size, n, end) ==
    IF file.loop # "reading" \/ size <= 0 THEN "other"
    ELSE IF n > 0 THEN "reading"
    ELSE IF end THEN "done"
    ELSE "other"

\* _LengthLimitedFile(input, max_bytes); asked and got add up what read has
\* requested of input and returned, rd describes the last read: the budget
\* before it, whether input.read was called, and the bytes returned; loop
\* is loop_after of the reads.
_LengthLimitedFile(rest, max_bytes) ==
    [limited |-> TRUE, _bytes_avail |-> max_bytes, rest |-> rest,
     asked |-> 0, got |-> 0,
     rd |-> [before |-> max_bytes, called |-> FALSE, n |-> 0],
     loop |-> "reading"]

\* environ['wsgi.input'] as the server made it.
wsgi_input(rest) ==
    [_LengthLimitedFile(rest, 0) EXCEPT !.limited = FALSE]

\* LimitedInputFilter.__call__: wraps wsgi.input when CONTENT_LENGTH is not
\* empty, then runs the application, which reads (pc "app") and returns.
LimitedInputFilter(w) ==
    LET f == Top(w)
        content_length == f.args.content_length
    IN
    /\ \/ /\ At(w, "LimitedInputFilter", "body") /\ content_length # <<>>
          /\ wk' = [wk EXCEPT ![w] = SetTop(w, [f EXCEPT
                        !.loc = _LengthLimitedFile(f.args.body, content_length[1]),
                        !.pc = "app"])]
       \/ /\ At(w, "LimitedInputFilter", "body") /\ content_length = <<>>
          /\ wk' = [wk EXCEPT ![w] = SetTop(w, [f EXCEPT
                        !.loc = wsgi_input(f.args.body), !.pc = "app"])]
       \/ /\ At(w, "LimitedInputFilter", "app")
          /\ Returns(w, [f EXCEPT !.rv = <<"">>])
    /\ UNCHANGED <<objs, refs, pool, others, leaked, nfaults>>

\* environ['wsgi.input'].read(size) by the application.
read(w) ==
    LET f == Top(w)
        file == f.loc
    IN
    /\ At(w, "LimitedInputFilter", "app")
    /\ \E size \in Sizes :
        \/ /\ file.limited /\ file._bytes_avail <= 0
           /\ wk' = [wk EXCEPT ![w] = SetTop(w, [f EXCEPT
                !.loc.rd = [before |-> file._bytes_avail, called |-> FALSE, n |-> 0],
                !.loc.loop = loop_after(file, size, 0, TRUE)])]
        \/ /\ file.limited /\ file._bytes_avail > 0
           /\ \E n \in input_read(size_capped(size, file._bytes_avail), file.rest) :
                wk' = [wk EXCEPT ![w] = SetTop(w, [f EXCEPT
                    !.loc = [file EXCEPT
                        !._bytes_avail = @ - size_capped(size, file._bytes_avail),
                        !.rest = @ - n,
                        !.asked = @ + size_capped(size, file._bytes_avail),
                        !.got = @ + n,
                        !.rd = [before |-> file._bytes_avail, called |-> TRUE,
                                n |-> n],
                        !.loop = loop_after(file, size, n, file.rest = 0)]])]
        \/ /\ ~file.limited
           /\ \E n \in input_read(size, file.rest) :
                wk' = [wk EXCEPT ![w] = SetTop(w, [f EXCEPT
                    !.loc = [file EXCEPT !.rest = @ - n, !.got = @ + n,
                                         !.rd.called = TRUE, !.rd.n = n,
                                         !.loop = loop_after(file, size, n,
                                                             file.rest = 0)]])]
    /\ UNCHANGED <<objs, refs, pool, others, leaked, nfaults>>

ReadCalls ==
    {[fn |-> "LimitedInputFilter",
      args |-> [content_length |-> L, body |-> b]] :
        L \in ContentLengths, b \in Bodies}

NextRead ==
    \/ \E c \in ReadCalls : PlainCall("w1", c, FALSE)
    \/ LimitedInputFilter("w1")
    \/ read("w1")
    \/ plain_exit("w1")

SpecRead == Init /\ [][NextRead]_vars

\* ------------------------------------------------------------ properties
Returned(w, fn) ==
    ~Busy(w) /\ wk[w].last.fn = fn /\ wk[w].last.out.kind = "ret"

\* Two workers have both returned from set_if_equals(R, v1, v2), v1 # v2,
\* called while R held v1 and run concurrently, with no database error.
RacedSetIfEquals(u, v) ==
    /\ u # v
    /\ nfaults = 0
    /\ Returned(u, "set_if_equals") /\ Returned(v, "set_if_equals")
    /\ wk[u].last.args = wk[v].last.args
    /\ wk[u].last.args.old_ref # None
    /\ wk[u].last.args.old_ref # wk[u].last.args.new_ref
    /\ wk[u].last.conc /\ wk[v].last.conc
    /\ wk[u].last.seen.refs[wk[u].last.args.repo][wk[u].last.args.name] = wk[u].last.args.old_ref
    /\ wk[v].last.seen.refs[wk[v].last.args.repo][wk[v].last.args.name] = wk[v].last.args.old_ref

\* C1: when two workers run set_if_equals(R, v1, v2) concurrently on a ref R
\* that holds v1, v1 # v2, exactly one call returns True and the other
\* False, and R holds v2 once both have finished.
C1_ExactlyOneWinner ==
    \A u, v \in Workers :
        RacedSetIfEquals(u, v) =>
            /\ wk[u].last.out.val # wk[v].last.out.val
            /\ refs[wk[u].last.args.repo][wk[u].last.args.name]
                   = wk[u].last.args.new_ref

\* Worker w's last call returned v.
RetIs(w, v) == wk[w].last.out.kind = "ret" /\ wk[w].last.out.val = v

\* The committed value of ref name of the call's repository when worker w's
\* last call began, and now.
SeenRef(w) == wk[w].last.seen.refs[wk[w].last.args.repo][wk[w].last.args.name]
NowRef(w) == refs[wk[w].last.args.repo][wk[w].last.args.name]

\* read(name) through symbolic resolution.
ResolvedRef(repo, name) ==
    IF _follow(repo, name) = None THEN None ELSE refs[repo][_follow(repo, name)]

\* C4: set_symbolic_ref(A, B), A # B, completes by storing under A a marker
\* that points at B, and reading A through symbolic resolution then yields
\* what B holds (X after set_if_equals(B, None, X)).
C4_SymbolicRefStored ==
    \A w \in Workers :
        (/\ ~Busy(w) /\ wk[w].last.fn = "set_symbolic_ref"
         /\ wk[w].last.args.name # wk[w].last.args.other
         /\ nfaults = 0)
        => /\ wk[w].last.out.kind = "ret"
           /\ NowRef(w) = Symref(wk[w].last.args.other)
           /\ ResolvedRef(wk[w].last.args.repo, wk[w].last.args.name)
                = refs[wk[w].last.args.repo][wk[w].last.args.other]

\* C5: add_if_new(name, target) returns False and writes nothing when a
\* value is stored for name; when none is stored it stores target under name
\* and returns True.
C5_AddIfNew ==
    \A w \in Workers :
        (~Busy(w) /\ wk[w].last.fn = "add_if_new" /\ nfaults = 0)
        => IF SeenRef(w) # None
           THEN /\ RetIs(w, FALSE)
                /\ refs[wk[w].last.args.repo] = wk[w].last.seen.refs[wk[w].last.args.repo]
           ELSE /\ RetIs(w, TRUE)
                /\ NowRef(w) = wk[w].last.args.ref

\* Worker w has finished set_if_equals or remove_if_equals called with an
\* old_ref that is not None and differs from the stored value.
MismatchedCall(w) ==
    /\ ~Busy(w)
    /\ wk[w].last.fn \in {"set_if_equals", "remove_if_equals"}
    /\ wk[w].last.args.old_ref # None
    /\ wk[w].last.args.old_ref # SeenRef(w)

\* C6: set_if_equals or remove_if_equals called with an old_ref that is not
\* None and differs from the stored value (or with no value stored) returns
\* False, raising nothing unless the database failed, and every ref of the
\* repository has the value it had before the call.
C6_MismatchReturnsFalse ==
    \A w \in Workers :
        MismatchedCall(w)
        => /\ wk[w].last.out.kind = "ret" => wk[w].last.out.val = FALSE
           /\ wk[w].last.out.kind = "raise" =>
                 wk[w].last.out.val = "DatabaseError" /\ nfaults > 0
           /\ refs[wk[w].last.args.repo] = wk[w].last.seen.refs[wk[w].last.args.repo]

\* C6 witness: such a call has returned False with no value stored.
C6_Witness ==
    \E w \in Workers :
        /\ MismatchedCall(w)
        /\ SeenRef(w) = None
        /\ RetIs(w, FALSE)
        /\ nfaults = 0

\* Worker w has finished a write of objects; its repository, the rows the
\* repository had at the call, and the objects the call was given.
AddCall(w) == ~Busy(w) /\ wk[w].last.fn \in {"add_object", "add_objects"}
RepoOf(w) == wk[w].last.args.repo
RowsBefore(w) == wk[w].last.seen.objs[RepoOf(w)]
Given(w) ==
    IF wk[w].last.fn = "add_object" THEN {wk[w].last.args.obj}
    ELSE {wk[w].last.args.objects[i][1] :
            i \in {j \in DOMAIN wk[w].last.args.objects :
                        IsPair(wk[w].last.args.objects[j])}}
WellFormed(w) ==
    wk[w].last.fn = "add_objects" =>
        \A i \in DOMAIN wk[w].last.args.objects : IsPair(wk[w].last.args.objects[i])

\* C2: a write (add_object or add_objects) never changes the row of an id
\* that was stored already and raises nothing for it (unless the database
\* failed); afterwards every id written is contained, and add_object of an
\* id that was stored leaves every row of the repository as it was, so that
\* add_object(O); add_object(O) ends in the state of one add_object(O).
C2_IdempotentAdd ==
    \A w \in Workers :
        AddCall(w) =>
            /\ \A o \in Oids :
                  RowsBefore(w)[o] # NoRow => objs[RepoOf(w)][o] = RowsBefore(w)[o]
            /\ (nfaults = 0 /\ WellFormed(w)) =>
                  /\ wk[w].last.out.kind = "ret"
                  /\ \A g \in Given(w) : HAS(g.id, RepoOf(w))
                  /\ (\A g \in Given(w) : RowsBefore(w)[g.id] # NoRow)
                        => objs[RepoOf(w)] = RowsBefore(w)

\* C2 witness: add_object has returned for an id that was stored with
\* another type and payload.
C2_Witness ==
    \E w \in Workers :
        /\ AddCall(w) /\ wk[w].last.fn = "add_object"
        /\ wk[w].last.out.kind = "ret"
        /\ RowsBefore(w)[wk[w].last.args.obj.id] # NoRow
        /\ RowsBefore(w)[wk[w].last.args.obj.id][1] # wk[w].last.args.obj.type_num
        /\ nfaults = 0

\* The decorated methods.
Scoped ==
    {"read_loose_ref", "allkeys", "set_if_equals", "set_symbolic_ref",
     "add_if_new", "remove_if_equals", "_has_sha", "_all_shas", "get_raw",
     "add_object", "add_objects", "delete_objects", "add_pack"}

\* Worker w has finished a scoped operation.
ScopedCall(w) == ~Busy(w) /\ wk[w].last.fn \in Scoped

\* C8: a database error that is not pool exhaustion reaches the caller of a
\* scoped operation only after the operation was attempted 3 times.
C8_RetriedThreeTimes ==
    \A w \in Workers :
        (ScopedCall(w) /\ wk[w].last.out.kind = "raise"
         /\ wk[w].last.out.val = "DatabaseError")
        => wk[w].last.att = 3

\* C9: when no scoped operation is executing, no connection is checked out:
\* every connection a scoped operation took was closed by the time it exited.
C9_AllReleased ==
    (\A w \in Workers : ~Busy(w)) => leaked = 0

\* C10: a scoped operation that raises leaves the tables as they were when
\* it was called, and one that returns has its writes committed: every
\* object given to add_object or add_objects is stored.
C10_CommitOrRollback ==
    \A w \in Workers :
        ScopedCall(w) =>
            /\ wk[w].last.out.kind = "raise" =>
                  objs = wk[w].last.seen.objs /\ refs = wk[w].last.seen.refs
            /\ (AddCall(w) /\ wk[w].last.out.kind = "ret") =>
                  \A g \in Given(w) : HAS(g.id, RepoOf(w))

\* What a read of repository B returns when only the rows of B count.
ReadOfB(c) ==
    CASE c.fn = "get_raw" ->
            IF c.seen.objs["B"][_to_hexsha(c.args.name)] = NoRow THEN NoRow
            ELSE <<c.seen.objs["B"][_to_hexsha(c.args.name)][1],
                   UNCOMPRESS(c.seen.objs["B"][_to_hexsha(c.args.name)][3])>>
      [] c.fn = "contains_loose" ->
            c.seen.objs["B"][_to_hexsha(c.args.sha)] # NoRow
      [] c.fn = "_all_shas" -> {o \in Oids : c.seen.objs["B"][o] # NoRow}
      [] c.fn = "allkeys" -> {n \in RefNames : c.seen.refs["B"][n] # None}
      [] c.fn = "read_loose_ref" -> c.seen.refs["B"][c.args.name]

\* The call a worker is in, or the last it finished.
Current(w) == IF Busy(w) THEN wk[w].st[1] ELSE wk[w].last

\* C3: no operation on repository A changes or removes a row of B, and
\* every read of B returns what the rows of B alone determine, whatever was
\* written under A; it raises only for a database error or an invalid id.
C3_TenantIsolation ==
    \A w \in Workers :
        /\ (Current(w).fn # "none" /\ Current(w).args.repo = "A") =>
              /\ objs["B"] = Current(w).seen.objs["B"]
              /\ refs["B"] = Current(w).seen.refs["B"]
        /\ (~Busy(w) /\ wk[w].last.fn # "none" /\ wk[w].last.args.repo = "B") =>
              /\ wk[w].last.out.kind = "ret" =>
                    wk[w].last.out.val = ReadOfB(wk[w].last)
              /\ wk[w].last.out.kind = "raise" =>
                    \/ wk[w].last.out.val = "DatabaseError" /\ nfaults > 0
                    \/ /\ wk[w].last.out.val = ValueError
                       /\ wk[w].last.fn \in {"get_raw", "contains_loose"}
                       /\ BadSha \in {wk[w].last.args[k] : k \in DOMAIN wk[w].last.args}

\* C3 witness: contains on B has returned False for an id, and read_loose_ref
\* on B none for a ref, that repository A holds.
C3_Witness ==
    \E w \in Workers :
        /\ ~Busy(w) /\ wk[w].last.out.kind = "ret"
        /\ wk[w].last.args.repo = "B"
        /\ \/ /\ wk[w].last.fn = "contains_loose"
              /\ wk[w].last.out.val = FALSE
              /\ wk[w].last.args.sha = "b1"
              /\ objs["A"]["s1"] # NoRow
           \/ /\ wk[w].last.fn = "read_loose_ref"
              /\ wk[w].last.out.val = None
              /\ refs["A"][wk[w].last.args.name] # None

\* Worker w has finished a call of a function wrapped by retry_operation
\* with retries >= 1.
RetryCall(w) ==
    ~Busy(w) /\ wk[w].last.fn = "retry_operation" /\ wk[w].last.args.retries >= 1

\* C7: with retries = n >= 1 and catches = C, the function is called k <= n
\* times, every call but the last raising an exception of a class in C; if
\* call k returns, its result is returned; if it raises an exception of a
\* class in C, then k = n and that exception is raised; if it raises any
\* other exception, that exception is raised at once.
C7_RetryBound ==
    \A w \in Workers :
        RetryCall(w) =>
            LET n == wk[w].last.args.retries
                C == wk[w].last.args.catches
                h == wk[w].last.hist
                k == Len(h)
                out == wk[w].last.out
            IN  /\ 1 <= k /\ k <= n
                /\ \A i \in 1..(k - 1) : h[i] # "ok" /\ isinstance(h[i], C)
                /\ IF h[k] = "ok"
                   THEN out.kind = "ret" /\ out.val = <<"result", k>>
                   ELSE /\ out.kind = "raise" /\ out.val = h[k]
                        /\ isinstance(h[k], C) => k = n

\* C7 witness: with the default retries, three calls have raised exceptions
\* of classes in C, the first another than the last, and the last was raised.
C7_Witness ==
    \E w \in Workers :
        /\ RetryCall(w)
        /\ wk[w].last.args.retries = DEFAULT_RETRIES
        /\ Len(wk[w].last.hist) = DEFAULT_RETRIES
        /\ \A i \in 1..DEFAULT_RETRIES :
              isinstance(wk[w].last.hist[i], wk[w].last.args.catches)
        /\ wk[w].last.hist[1] # wk[w].last.hist[DEFAULT_RETRIES]
        /\ wk[w].last.out.kind = "raise"
        /\ wk[w].last.out.val = wk[w].last.hist[DEFAULT_RETRIES]

\* The connections worker w holds, and all that are checked out: those of
\* the workers, those never closed, and those of the workers not modelled.
Held(w) == Cardinality({i \in DOMAIN wk[w].st : wk[w].st[i].conn})

RECURSIVE HeldBy(_)
HeldBy(W) ==
    IF W = {} THEN 0
    ELSE LET w == CHOOSE x \in W : TRUE IN Held(w) + HeldBy(W \ {w})

CheckedOut == others + leaked + HeldBy(Workers)

\* C11: the connections checked out at the same time, and the connections
\* the pool has open (checked out plus idle), are at most POOL_SIZE, also
\* after replenishing_cursor has refilled the queue.
C11_PoolBound ==
    /\ CheckedOut <= POOL_SIZE
    /\ CheckedOut + PoolNow.idle <= POOL_SIZE

\* Worker w has finished add_thin_pack.
ThinPackCall(w) == ~Busy(w) /\ wk[w].last.fn = "add_thin_pack"

\* The ids stored in repository repo of table t.
IdsIn(t, repo) == {o \in DOMAIN t[repo] : t[repo][o] # NoRow}

\* C12: every statement is executed on a cursor whose connection the
\* operation has checked out at that moment; the commit callback of add_pack
\* issues none after add_pack has released its connection.
C12_NoStatementAfterRelease ==
    \A w \in Workers :
        ThinPackCall(w) =>
            \A i \in DOMAIN wk[w].last.hist : wk[w].last.hist[i].connected

\* C13: when add_thin_pack raises, for whatever reason, the ids stored in
\* the repository are those stored before the call.
C13_FailedThinPackStoresNothing ==
    \A w \in Workers :
        (ThinPackCall(w) /\ wk[w].last.out.kind = "raise")
        => IdsIn(objs, RepoOf(w)) = IdsIn(wk[w].last.seen.objs, RepoOf(w))

\* C13 witness: add_thin_pack of a complete pack that holds an object has
\* failed on an external reference that is not stored.
C13_Witness ==
    \E w \in Workers :
        /\ ThinPackCall(w)
        /\ wk[w].last.out.kind = "raise" /\ wk[w].last.out.val = "TypeError"
        /\ wk[w].last.args.pack.complete
        /\ wk[w].last.args.pack.objects # <<>>
        /\ wk[w].last.args.pack.ext_refs # <<>>

\* C14: add_thin_pack of a complete stream whose external references are all
\* stored returns, and every object of the completed stream is stored then.
C14_ThinPackStored ==
    \A w \in Workers :
        (/\ ThinPackCall(w)
         /\ wk[w].last.args.pack.complete
         /\ \A i \in DOMAIN wk[w].last.args.pack.ext_refs :
               sha_to_hex(wk[w].last.args.pack.ext_refs[i])
                   \in IdsIn(wk[w].last.seen.objs, RepoOf(w))
         /\ nfaults = 0)
        => /\ wk[w].last.out.kind = "ret"
           /\ \A i \in DOMAIN wk[w].last.args.pack.objects :
                 HAS(wk[w].last.args.pack.objects[i].id, RepoOf(w))

\* The id that contains_loose(sha) or get_raw(name) was given.
IdArg(c) == IF c.fn = "get_raw" THEN c.args.name ELSE c.args.sha

\* Call c is contains_loose or get_raw with an id whose length is neither 40
\* nor 20.
BadIdCall(c) ==
    c.fn \in {"contains_loose", "get_raw"} /\ len_sha(IdArg(c)) \notin {40, 20}

\* C18: contains_loose and get_raw reject an id whose length is neither 40
\* nor 20 with ValueError before any I/O: during the call no connection is
\* held, and the pool and the tables stay as they were when it began.
C18_BadIdNoIO ==
    \A w \in Workers :
        BadIdCall(Current(w)) =>
            /\ Held(w) = 0
            /\ pool = Current(w).seen.pool
            /\ leaked = Current(w).seen.leaked
            /\ objs = Current(w).seen.objs
            /\ ~Busy(w) =>
                  /\ wk[w].last.out.kind = "raise"
                  /\ wk[w].last.out.val = ValueError

\* Worker w has finished get_raw of a well-formed id.
GetRawCall(w) ==
    ~Busy(w) /\ wk[w].last.fn = "get_raw" /\ ~BadIdCall(wk[w].last)

\* The row of that id when the call began.
RowOf(w) == wk[w].last.seen.objs[RepoOf(w)][_to_hexsha(wk[w].last.args.name)]

\* C19: get_raw of a well-formed id that is not stored raises NotFound, and
\* never returns a value that is not a (type, payload) pair; for an id that
\* is stored, it returns the type and the payload that were written.
C19_GetRawNotFound ==
    \A w \in Workers :
        GetRawCall(w) =>
            /\ wk[w].last.out.kind = "ret" =>
                  /\ RowOf(w) # NoRow
                  /\ wk[w].last.out.val = <<RowOf(w)[1], UNCOMPRESS(RowOf(w)[3])>>
            /\ (RowOf(w) = NoRow /\ nfaults = 0) =>
                  /\ wk[w].last.out.kind = "raise"
                  /\ wk[w].last.out.val = "NotFound"
            /\ (RowOf(w) # NoRow /\ nfaults = 0) => wk[w].last.out.kind = "ret"

\* The request that worker w handles or has handled last.
HttpRequest(w) == Current(w).fn = "HTTPGitApplication"

HTTP_FORBIDDEN == "403 Forbidden"

\* C15: GET <repo>/info/refs with a service parameter that names no
\* supported handler is answered with 403 and a text/plain body, and with
\* nothing else: no repository is opened, no 200 or 500 is sent.
C15_UnsupportedServiceForbidden ==
    \A w \in Workers :
        (/\ HttpRequest(w) /\ ~Busy(w)
         /\ wk[w].last.args.method = "GET"
         /\ wk[w].last.args.route = "/info/refs"
         /\ wk[w].last.args.service \notin DEFAULT_HANDLERS \cup {None})
        => /\ wk[w].last.out.kind = "ret"
           /\ wk[w].last.hist = <<respond(HTTP_FORBIDDEN, <<"text/plain">>)>>

\* A request that a handler serves: GET /info/refs with a supported service,
\* POST /git-upload-pack or POST /git-receive-pack.
Routed(req) ==
    \/ /\ services(req.method, req.route) = "get_info_refs"
       /\ req.service \in DEFAULT_HANDLERS
    \/ services(req.method, req.route) = "handle_service_request"

\* C16: a routed request for a repository that cannot be opened is answered
\* with 404, and no request is answered with 200 before the repository has
\* been opened.
C16_UnopenableNotFound ==
    \A w \in Workers :
        HttpRequest(w) =>
            /\ (~Busy(w) /\ Routed(wk[w].last.args)
                /\ wk[w].last.args.prefix \notin Containers)
               => \E i \in DOMAIN wk[w].last.hist :
                      wk[w].last.hist[i] = not_found
            /\ \A i \in DOMAIN Current(w).hist :
                  (Current(w).hist[i].ev = "start_response"
                   /\ Current(w).hist[i].status = HTTP_OK)
                  => \E j \in 1..(i - 1) :
                        Current(w).hist[j] = open_repository(Current(w).args.prefix)
                        /\ Current(w).hist[j].status = "ok"

\* Worker w is serving a request whose wsgi.input was wrapped.
Limited(w) ==
    /\ Busy(w) /\ Top(w).fn = "LimitedInputFilter" /\ Top(w).pc # "body"
    /\ Top(w).loc.limited

\* C17: with a declared Content-Length L, whatever reads of size -1 or
\* size >= 0 are made and however short the transport's reads are, the bytes
\* requested of the transport and those returned are at most L, the budget
\* is never negative, and a read at budget 0 returns '' without calling the
\* transport.
C17_ReadsCapped ==
    \A w \in Workers :
        Limited(w) =>
            /\ Top(w).loc.asked <= Top(w).args.content_length[1]
            /\ Top(w).loc.got <= Top(w).loc.asked
            /\ Top(w).loc._bytes_avail >= 0
            /\ Top(w).loc.rd.before = 0 =>
                  ~Top(w).loc.rd.called /\ Top(w).loc.rd.n = 0

\* C17 witness: the budget of a positive Content-Length is used up by reads
\* of which one was short, the transport has more bytes, and a further read
\* has returned ''.
C17_Witness ==
    \E w \in Workers :
        /\ Limited(w)
        /\ Top(w).args.content_length[1] > 0
        /\ Top(w).loc.asked = Top(w).args.content_length[1]
        /\ Top(w).loc.got < Top(w).loc.asked
        /\ Top(w).loc.rest > 0
        /\ Top(w).loc._bytes_avail = 0
        /\ Top(w).loc.rd = [before |-> 0, called |-> FALSE, n |-> 0]

\* C20: init_bare(name) raises when a repository of that name exists, as
\* repo_exists tells it, at the call; it returns no handle then.
C20_CreateExistingFails ==
    \A w \in Workers :
        (/\ ~Busy(w) /\ wk[w].last.fn = "init_bare"
         /\ EXISTS(wk[w].last.seen.objs, wk[w].last.args.name))
        => wk[w].last.out.kind = "raise"

\* Worker w has returned from delete_repo(name).
Deleted(w) == Returned(w, "delete_repo")

\* What list_repos() returns in table t.
Listed(t) == {r \in Repos : EXISTS(t, r)}

\* C21: once delete_repo(name) has returned, name has no row in objs and
\* none in refs, repo_exists(name) is false and list_repos() is without
\* name; the rows of every other repository, and so what repo_exists and
\* list_repos tell of it, are as they were at the call.
C21_DeleteRepo ==
    \A w \in Workers :
        Deleted(w) =>
            LET name == wk[w].last.args.name
                before == wk[w].last.seen
            IN  /\ \A o \in DOMAIN objs[name] : objs[name][o] = NoRow
                /\ \A n \in RefNames : refs[name][n] = None
                /\ ~EXISTS(objs, name)
                /\ name \notin Listed(objs)
                /\ \A r \in Repos \ {name} :
                      /\ objs[r] = before.objs[r]
                      /\ refs[r] = before.refs[r]
                      /\ EXISTS(objs, r) = EXISTS(before.objs, r)
                      /\ (r \in Listed(objs)) = (r \in Listed(before.objs))

\* C21 witness: delete_repo(name) has returned for a repository that had an
\* object row and a ref row, while another repository has both.
C21_Witness ==
    \E w \in Workers :
        /\ Deleted(w)
        /\ EXISTS(wk[w].last.seen.objs, wk[w].last.args.name)
        /\ \E n \in RefNames : wk[w].last.seen.refs[wk[w].last.args.name][n] # None
        /\ \E r \in Repos \ {wk[w].last.args.name} :
              /\ EXISTS(objs, r)
              /\ \E n \in RefNames : refs[r][n] # None

\* The attempts of a scoped call, finished or on the stack, with att its
\* attempt now and hist what the wrapper has caught, n exceptions: at most
\* two attempts, the second only after a PoolError of the first.
Attempts(c, n) ==
    /\ c.att \in {1, 2}
    /\ Len(c.hist) = n
    /\ \A i \in DOMAIN c.hist : c.hist[i] = "PoolError"

\* Worker cur, inside or after a scoped call of replenishing_cursor.
Replenishing(cur) ==
    /\ \A i \in DOMAIN cur.st :
          cur.st[i].deco =>
              Attempts(cur.st[i], IF cur.st[i].pc = "replenish"
                                  THEN cur.st[i].att ELSE cur.st[i].att - 1)
    /\ (cur.st = <<>> /\ cur.last.fn \in Scoped) =>
          /\ Attempts(cur.last, cur.last.att - 1)
          /\ (cur.last.out.kind = "raise" /\ cur.last.out.val = "PoolError")
                => cur.last.att = 2

\* C22: a PoolError of the first attempt of a scoped operation, and no other
\* exception, makes the wrapper add connections until the idle queue is
\* full, at most POOL_SIZE of them, and attempt the operation once more; a
\* PoolError of the second attempt goes to the caller, so that no call is
\* attempted more than twice.
C22_ReplenishOnce ==
    [][/\ \A w \in Workers :
            /\ Replenishing(wk'[w])
            /\ (Busy(w) /\ Top(w).pc = "replenish" /\ wk'[w] # wk[w]) =>
                  /\ Top(w).hist = <<"PoolError">>
                  /\ pool'.idle = POOL_SIZE
                  /\ pool'.idle - pool.idle \in 0..POOL_SIZE
                  /\ wk'[w].st[Len(wk'[w].st)].att = 2
                  /\ wk'[w].st[Len(wk'[w].st)].pc = "enter"
       /\ (pool'.idle > pool.idle + 1) =>
             \E w \in Workers :
                 Busy(w) /\ Top(w).pc = "replenish" /\ wk'[w] # wk[w]]_vars

\* C22 witness: a scoped operation has raised PoolError to its caller after
\* its first attempt raised PoolError and the pool was replenished.
C22_Witness ==
    \E w \in Workers :
        /\ ScopedCall(w)
        /\ wk[w].last.out.kind = "raise" /\ wk[w].last.out.val = "PoolError"
        /\ wk[w].last.att = 2
        /\ wk[w].last.hist = <<"PoolError">>

\* C23: when the transport holds the L bytes of the declared Content-Length
\* and the handler reads the wrapped input with positive sizes until it
\* gets '', every read before that having returned bytes, it has got
\* exactly L bytes: a short read costs the budget no more than it returned.
C23_ShortReadsLoseNothing ==
    \A w \in Workers :
        (/\ Limited(w)
         /\ Top(w).args.body >= Top(w).args.content_length[1]
         /\ Top(w).loc.loop = "done")
        => Top(w).loc.got = Top(w).args.content_length[1]

====
